---- MODULE Spec2Model ----
(***************************************************************************)
(* Model of the MongoDB RAG server (src/unnamed/part_000): the chunker,    *)
(* the similarity scorer, the query tier policy and the store operations   *)
(* issued by /ingest, /query, DELETE /documents and /load-my-data.         *)
(*                                                                         *)
(* Strings are sequences of one-character strings; indices into a string   *)
(* are 0-based as in the source (the character at index i of s is s[i+1]). *)
(* A request value that need not be a string is a record [type, str].      *)
(***************************************************************************)
EXTENDS Integers, Sequences, FiniteSets, TLC

VARIABLES
    \* chunkText(text, chunkSize), run one loop iteration at a time
    text, chunkSize, cleanText, start, chunks, spans, pc,
    \* the documents collection, the embedding provider, the last response
    store, voyage, lastOp, lastIngest,
    \* overlapping /ingest requests
    req, store0, order

chunkVars == <<text, chunkSize, cleanText, start, chunks, spans, pc>>
seqVars == <<store, voyage, lastOp, lastIngest>>
concVars == <<req, store0, order>>
vars == <<text, chunkSize, cleanText, start, chunks, spans, pc,
          store, voyage, lastOp, lastIngest, req, store0, order>>

----------------------------------------------------------------------------
(* Bounds of the chunker's input space *)

MaxLen == 6

MaxChunkSize == 5

(* chunkText's default chunkSize, and the 0.6 of "chunkSize * 0.6" as 6/10 *)
DefaultChunkSize == 400

RatioNum == 6

RatioDen == 10

----------------------------------------------------------------------------
(* JavaScript values and string primitives *)

JsStr(s) == [type |-> "string", str |-> s]

JsUndefined == [type |-> "undefined", str |-> <<>>]

JsNumber == [type |-> "number", str |-> <<>>]

\* !v for the values above: undefined and "" are falsy, a non-zero number is not
Falsy(v) == v.type = "undefined" \/ (v.type = "string" /\ v.str = <<>>)

\* the characters matched by \s and removed by trim()
IsSpace(c) == c \in {" ", "\t", "\n"}

Min(a, b) == IF a < b THEN a ELSE b

\* s.replace(/\s+/g, ' '): every maximal run of whitespace becomes one space
Normalize(s) ==
    LET P == [i \in 1..Len(s) |->
                 <<s[i], ~IsSpace(s[i]) \/ i = 1 \/ ~IsSpace(s[i-1])>>]
        Q == SelectSeq(P, LAMBDA p : p[2])
    IN  [i \in 1..Len(Q) |-> IF IsSpace(Q[i][1]) THEN " " ELSE Q[i][1]]

RECURSIVE TrimStart(_)
TrimStart(s) == IF s = <<>> \/ ~IsSpace(Head(s)) THEN s ELSE TrimStart(Tail(s))

RECURSIVE TrimEnd(_)
TrimEnd(s) ==
    IF s = <<>> \/ ~IsSpace(s[Len(s)]) THEN s ELSE TrimEnd(SubSeq(s, 1, Len(s) - 1))

\* s.trim()
Trim(s) == TrimEnd(TrimStart(s))

\* s.slice(a, b) for 0 <= a, 0 <= b
Slice(s, a, b) == SubSeq(s, a + 1, Min(b, Len(s)))

\* s.lastIndexOf(ch, pos): the largest index <= pos holding ch, or -1
LastIndexOf(s, ch, pos) ==
    LET S == {i \in 0..Min(pos, Len(s) - 1) : s[i + 1] = ch}
    IN  IF S = {} THEN -1 ELSE CHOOSE i \in S : \A j \in S : j <= i

----------------------------------------------------------------------------
(* chunkText *)

\* sentenceEnd > start + chunkSize * 0.6, over the integers
CutPoint_AtLeast(clean, size, st) ==
    LET end == st + size
        sentenceEnd == LastIndexOf(clean, ".", end)
    IN  IF end < Len(clean) /\ RatioDen * sentenceEnd >= RatioDen * st + RatioNum * size
        THEN sentenceEnd + 1
        ELSE end

\* the value of `end` when the slice is taken (lines 106-114)
CutPoint(clean, size, st) ==
    LET end == st + size
        sentenceEnd == LastIndexOf(clean, ".", end)
    IN  IF end < Len(clean) /\ RatioDen * sentenceEnd > RatioDen * st + RatioNum * size
        THEN sentenceEnd + 1
        ELSE end

\* cleanText.slice(start, end).trim()
ChunkAt(clean, st, end) == Trim(Slice(clean, st, end))

\* chunks after "if (chunk.length > 0) chunks.push(chunk)"
PushChunk(acc, chunk) == IF Len(chunk) > 0 THEN Append(acc, chunk) ELSE acc

NextStart_Trimmed(st, end, chunk) == st + Len(chunk)

\* start = end
NextStart(st, end, chunk) == end

\* text.replace(/\s+/g, ' ').trim()
CleanText(s) == Trim(Normalize(s))

RECURSIVE ChunkLoop(_, _, _, _)
ChunkLoop(clean, size, st, acc) ==
    IF st < Len(clean)
    THEN LET end == CutPoint(clean, size, st)
             chunk == ChunkAt(clean, st, end)
         IN  ChunkLoop(clean, size, NextStart(st, end, chunk), PushChunk(acc, chunk))
    ELSE acc

\* chunkText(t, size) as a function of its arguments
chunkText(t, size) ==
    IF Falsy(t) \/ t.type # "string" THEN <<>>
    ELSE LET clean == CleanText(t.str)
         IN  IF Len(clean) <= size THEN <<clean>> ELSE ChunkLoop(clean, size, 0, <<>>)

----------------------------------------------------------------------------
(* chunkText as a state machine: entry, one loop iteration, return *)

Alphabet == {"a", ".", " "}

SeqsUpTo(S, n) == UNION {[1..k -> S] : k \in 0..n}

\* a few inputs with other whitespace than the space
TabTexts == {<<"\t">>, <<"a", "\t", "\n", ".">>, <<"\n", "a", " ", "\t">>}

ChunkInputs ==
    {JsStr(s) : s \in SeqsUpTo(Alphabet, MaxLen) \cup TabTexts} \cup {JsUndefined, JsNumber}

ChunkEnter ==
    /\ pc = "call"
    /\ IF Falsy(text) \/ text.type # "string"
       THEN /\ chunks' = <<>>
            /\ pc' = "done"
            /\ UNCHANGED <<cleanText, start>>
       ELSE /\ cleanText' = CleanText(text.str)
            /\ IF Len(cleanText') <= chunkSize
               THEN /\ chunks' = <<cleanText'>>
                    /\ pc' = "done"
                    /\ UNCHANGED start
               ELSE /\ chunks' = <<>>
                    /\ start' = 0
                    /\ pc' = "loop"
    /\ UNCHANGED <<text, chunkSize, spans>>

ChunkIterate ==
    /\ pc = "loop"
    /\ start < Len(cleanText)
    /\ LET end == CutPoint(cleanText, chunkSize, start)
           chunk == ChunkAt(cleanText, start, end)
       IN  /\ chunks' = PushChunk(chunks, chunk)
           /\ spans' = Append(spans, [start |-> start, end |-> end, chunk |-> chunk])
           /\ start' = NextStart(start, end, chunk)
    /\ UNCHANGED <<text, chunkSize, cleanText, pc>>

ChunkReturn ==
    /\ pc = "loop"
    /\ ~(start < Len(cleanText))
    /\ pc' = "done"
    /\ UNCHANGED <<text, chunkSize, cleanText, start, chunks, spans>>

----------------------------------------------------------------------------
(* The embedding provider and cosineSimilarity *)

\* The vectors the provider answers with. Their squared norms (1, 100, 25, 9, 0)
\* are perfect squares, so Math.sqrt and the division are exact on them.
Vectors ==
    << <<1, 0, 0, 0>>, <<7, 1, 1, 7>>, <<3, 4, 0, 0>>, <<2, 2, 1, 0>>, <<0, 0, 0, 0>> >>

\* the provider is a deterministic function of the text; voyage selects one
Providers == {0, 1}

EmbeddingOf(m, s) == Vectors[((Len(s) + m) % Len(Vectors)) + 1]

\* data.data.map(item => item.embedding) of a successful response
getEmbeddings(m, texts) == [i \in 1..Len(texts) |-> EmbeddingOf(m, texts[i])]

RECURSIVE DotFrom(_, _, _)
DotFrom(a, b, i) == IF i > Len(a) THEN 0 ELSE a[i] * b[i] + DotFrom(a, b, i + 1)

\* vecA.reduce((sum, val, i) => sum + val * vecB[i], 0)
Dot(a, b) == DotFrom(a, b, 1)

\* Math.sqrt on a perfect square
Sqrt(n) == CHOOSE k \in 0..n : k * k = n

\* A score is the exact rational num/den with den > 0.
Zero == [num |-> 0, den |-> 1]

cosineSimilarity(vecA, vecB) ==
    IF Len(vecA) # Len(vecB) THEN Zero
    ELSE LET dotProduct == Dot(vecA, vecB)
             magnitudeA == Sqrt(Dot(vecA, vecA))
             magnitudeB == Sqrt(Dot(vecB, vecB))
         IN  IF magnitudeA = 0 \/ magnitudeB = 0 THEN Zero
             ELSE [num |-> dotProduct, den |-> magnitudeA * magnitudeB]

\* x.num/x.den > y.num/y.den
Greater(x, y) == x.num * y.den > y.num * x.den

\* x.num/x.den > n/d for a literal n/d
Above(x, n, d) == x.num * d > n * x.den

\* Math.round(x * 100): the nearest integer, a half rounded up
RoundPercent(x) == (200 * x.num + x.den) \div (2 * x.den)

----------------------------------------------------------------------------
(* Store calls on the documents collection, a sequence in insertion order *)

\* collection.deleteMany({ docId })
DeleteMany_KeepAll(st, d) == st

DeleteMany_All(st, d) == <<>>

DeleteMany(st, d) == SelectSeq(st, LAMBDA c : c.docId # d)

\* collection.insertMany(documents)
InsertMany_Replace(st, docs) ==
    IF docs = <<>> THEN st ELSE DeleteMany(st, docs[1].docId) \o docs

InsertMany(st, docs) == st \o docs

\* metadata.title || docId, metadata.category || 'general'
OrElse(v, dflt) == IF v = "" THEN dflt ELSE v

\* the documents /ingest prepares (lines 182-193; createdAt is left out)
IngestDocuments(d, chs, embeddings, metadata) ==
    [idx \in 1..Len(chs) |->
        [docId |-> d,
         chunkIndex |-> idx - 1,
         text |-> chs[idx],
         embedding |-> embeddings[idx],
         metadata |-> [title |-> OrElse(metadata.title, d),
                       category |-> OrElse(metadata.category, "general"),
                       totalChunks |-> Len(chs)]]]

\* the documents /load-my-data prepares (lines 429-436): metadata is doc.metadata
LoadDocuments(d, chs, embeddings, metadata) ==
    [idx \in 1..Len(chs) |->
        [docId |-> d,
         chunkIndex |-> idx - 1,
         text |-> chs[idx],
         embedding |-> embeddings[idx],
         metadata |-> metadata]]

----------------------------------------------------------------------------
(* Texts *)

NoInfoAnswer ==
    <<"I", " ", "d", "o", "n", "'", "t", " ", "h", "a", "v", "e", " ", "a",
      "n", "y", " ", "i", "n", "f", "o", "r", "m", "a", "t", "i", "o", "n",
      " ", "i", "n", " ", "m", "y", " ", "d", "a", "t", "a", "b", "a", "s",
      "e", " ", "y", "e", "t", ".", " ", "P", "l", "e", "a", "s", "e", " ",
      "a", "d", "d", " ", "s", "o", "m", "e", " ", "d", "o", "c", "u", "m",
      "e", "n", "t", "s", " ", "f", "i", "r", "s", "t", ".">>

RefusalAnswer ==
    <<"I", "'", "m", " ", "s", "o", "r", "r", "y", ",", " ", "b", "u", "t",
      " ", "I", " ", "d", "o", "n", "'", "t", " ", "h", "a", "v", "e", " ",
      "i", "n", "f", "o", "r", "m", "a", "t", "i", "o", "n", " ", "a", "b",
      "o", "u", "t", " ", "t", "h", "a", "t", " ", "i", "n", " ", "m", "y",
      " ", "k", "n", "o", "w", "l", "e", "d", "g", "e", " ", "b", "a", "s",
      "e", ".", " ", "P", "l", "e", "a", "s", "e", " ", "a", "s", "k", " ",
      "m", "e", " ", "s", "o", "m", "e", "t", "h", "i", "n", "g", " ", "a",
      "b", "o", "u", "t", " ", "t", "h", "e", " ", "d", "o", "c", "u", "m",
      "e", "n", "t", "s", " ", "y", "o", "u", "'", "v", "e", " ", "p", "r",
      "o", "v", "i", "d", "e", "d", ".">>

HedgePrefix ==
    <<"B", "a", "s", "e", "d", " ", "o", "n", " ", "m", "y", " ", "k", "n",
      "o", "w", "l", "e", "d", "g", "e", ":", " ">>

SkyText ==
    <<"T", "h", "e", " ", "s", "k", "y", " ", "i", "s", " ", "b", "l", "u",
      "e", ".">>

myData ==
    << [docId |-> "csec-lab-1",
        text |-> <<"c", "s", "e", "c", "-", "l", "a", "b", " ", "i", "s", " ",
                   "g", "o", "o", "d", " ", "e", "n", "v", "i", "r", "o", "n",
                   "m", "e", "n", "t">>,
        metadata |-> [title |-> "CSEC Lab Environment", category |-> "academic"]],
       [docId |-> "csec-lab-2",
        text |-> <<"c", "s", "e", "c", "-", "l", "a", "b", " ", "c", "o", "n",
                   "t", "a", "i", "n", "s", " ", "a", "r", "o", "u", "n", "d",
                   " ", "4", "0", "0", " ", "s", "t", "u", "d", "e", "n", "t",
                   "s">>,
        metadata |-> [title |-> "CSEC Lab Student Count", category |-> "academic"]],
       [docId |-> "csec-astu-1",
        text |-> <<"c", "s", "e", "c", "-", "a", "s", "t", "u", " ", "h", "a",
                   "s", " ", "4", " ", "d", "i", "v", "i", "s", "i", "o", "n">>,
        metadata |-> [title |-> "CSEC ASTU Divisions", category |-> "academic"]],
       [docId |-> "csec-dev-1",
        text |-> <<"c", "s", "e", "c", "-", "d", "e", "v", " ", "h", "a", "s",
                   " ", "a", "r", "o", "u", "n", "d", " ", "5", "0", " ", "m",
                   "e", "m", "b", "e", "r", "s">>,
        metadata |-> [title |-> "CSEC Dev Members", category |-> "academic"]],
       [docId |-> "general-1",
        text |-> <<"s", "k", "y", " ", "i", "s", " ", "b", "l", "u", "e">>,
        metadata |-> [title |-> "General Fact", category |-> "general"]],
       [docId |-> "personal-1",
        text |-> <<"a", "b", "e", "b", "e", " ", "e", "a", "t", "s", " ", "b",
                   "e", "s", "o">>,
        metadata |-> [title |-> "Personal Habit", category |-> "personal"]],
       [docId |-> "location-1",
        text |-> <<"a", "s", "t", "u", " ", "i", "s", " ", "f", "o", "u", "n",
                   "d", " ", "i", "n", " ", "a", "d", "a", "m", "a">>,
        metadata |-> [title |-> "ASTU Location", category |-> "location"]],
       [docId |-> "location-2",
        text |-> <<"a", "d", "a", "m", "a", " ", "i", "s", " ", "a", " ", "b",
                   "e", "a", "u", "t", "i", "f", "u", "l", " ", "c", "i", "t",
                   "y">>,
        metadata |-> [title |-> "Adama City", category |-> "location"]],
       [docId |-> "location-3",
        text |-> <<"a", "d", "d", "i", "s", " ", "a", "b", "e", "b", "a", " ",
                   "i", "s", " ", "d", "i", "f", "f", "e", "r", "e", "n", "t",
                   " ", "f", "r", "o", "m", " ", "a", "d", "a", "m", "a">>,
        metadata |-> [title |-> "City Comparison", category |-> "location"]],
       [docId |-> "csec-lab-3",
        text |-> <<"c", "s", "e", "c", "-", "l", "a", "b", " ", "h", "a", "s",
                   " ", "b", "e", "e", "n", " ", "c", "r", "e", "a", "t", "e",
                   "d", " ", "s", "i", "n", "c", "e", " ", "2", "0", "2", "3">>,
        metadata |-> [title |-> "CSEC Lab Creation", category |-> "academic"]] >>

\* a text of three chunks: a double space at 60-61, a period at index 300
LongText ==
    [i \in 1..900 |->
        IF i = 301 THEN "." ELSE IF i % 60 = 0 \/ i = 61 THEN " " ELSE "a"]

----------------------------------------------------------------------------
(* Request inputs *)

\* document ids a client sends; "" stands for a missing docId
DocIds == {"d1", "general-1"}

DocIdInputs == DocIds \cup {""}

IngestTexts ==
    {JsStr(<<>>), JsStr(<<" ", " ">>), JsStr(SkyText), JsStr(LongText), JsNumber}

\* a metadata with a category and no title
Metadatas == {[title |-> "", category |-> "academic"]}

\* the document of /load-my-data whose embedding request throws (0: none)
LoadFailPoints == {0, 6}

Questions ==
    {JsStr(<<>>), JsStr(<<"?">>), JsStr(<<"s", "k">>), JsStr(<<"s", "k", "y">>),
     JsStr(<<"b", "l", "u", "e">>), JsStr(<<"w", "h", "a", "t", "?">>)}

\* the last successful /ingest of each id that no later store change has touched
NoIngest == [valid |-> FALSE, text |-> JsUndefined,
             metadata |-> [title |-> "", category |-> ""], count |-> 0]

\* the chunks of document d, in store order
ChunksFor(st, d) == SelectSeq(st, LAMBDA c : c.docId = d)

----------------------------------------------------------------------------
(* The request handlers, each from the request to the response *)

\* A response and what it rests on: stage is the step that answered, calls the
\* store calls issued, deleted the deletedCount of deleteMany, question the
\* question answered.
Response(op, status, stage) ==
    [op |-> op, status |-> status, stage |-> stage, docId |-> "", chunks |-> 0,
     calls |-> <<>>, deleted |-> 0, question |-> JsUndefined, answer |-> <<>>,
     confidence |-> 0]

NoResponse == Response("none", 0, "none")

\* the call of a handler that throws, if any: the embedding request or a store call
Faults == {"none", "embed", "connect", "delete", "insert"}

\* chunkText(t) of the texts requests carry, computed once
ChunkTable == {<<t, chunkText(t, DefaultChunkSize)>> : t \in IngestTexts}

\* chunkText(t), with chunkSize = 400 by default
ChunksOf(t) ==
    IF \E p \in ChunkTable : p[1] = t
    THEN (CHOOSE p \in ChunkTable : p[1] = t)[2]
    ELSE chunkText(t, DefaultChunkSize)

IngestHandler_DeleteFirst(st, m, d, t, metadata, fault) ==
    LET fail(stage, calls, st2) ==
            [store |-> st2, resp |-> [Response("ingest", 500, stage) EXCEPT !.calls = calls]]
        reject(stage) == [store |-> st, resp |-> Response("ingest", 400, stage)]
        chs == ChunksOf(t)
        st1 == DeleteMany(st, d)
    IN  IF d = "" \/ Falsy(t) THEN reject("validate")
        ELSE IF Len(chs) = 0 THEN reject("chunk")
        ELSE IF fault = "connect" THEN fail("connect", <<>>, st)
        ELSE IF fault = "delete" THEN fail("delete", <<"deleteMany">>, st)
        ELSE IF fault = "embed" THEN fail("embed", <<"deleteMany">>, st1)
        ELSE IF fault = "insert" THEN fail("insert", <<"deleteMany", "insertMany">>, st1)
        ELSE [store |-> InsertMany(st1, IngestDocuments(d, chs, getEmbeddings(m, chs),
                                                        metadata)),
              resp |-> [Response("ingest", 200, "ok") EXCEPT
                            !.docId = d, !.chunks = Len(chs),
                            !.deleted = Len(st) - Len(st1),
                            !.calls = <<"deleteMany", "insertMany">>]]

\* app.post('/ingest'): from the request to the response, with the store calls issued
IngestHandler(st, m, d, t, metadata, fault) ==
    LET fail(stage, calls, st2) ==
            [store |-> st2, resp |-> [Response("ingest", 500, stage) EXCEPT !.calls = calls]]
        reject(stage) == [store |-> st, resp |-> Response("ingest", 400, stage)]
        chs == ChunksOf(t)
        st1 == DeleteMany(st, d)
    IN  IF d = "" \/ Falsy(t) THEN reject("validate")
        ELSE IF Len(chs) = 0 THEN reject("chunk")
        ELSE IF fault = "embed" THEN fail("embed", <<>>, st)
        ELSE IF fault = "connect" THEN fail("connect", <<>>, st)
        ELSE IF fault = "delete" THEN fail("delete", <<"deleteMany">>, st)
        ELSE IF fault = "insert" THEN fail("insert", <<"deleteMany", "insertMany">>, st1)
        ELSE [store |-> InsertMany(st1, IngestDocuments(d, chs, getEmbeddings(m, chs),
                                                        metadata)),
              resp |-> [Response("ingest", 200, "ok") EXCEPT
                            !.docId = d, !.chunks = Len(chs),
                            !.deleted = Len(st) - Len(st1),
                            !.calls = <<"deleteMany", "insertMany">>]]

\* the score of every document against the query (lines 252-255)
Scores(allDocs, queryEmbedding) ==
    [i \in 1..Len(allDocs) |-> cosineSimilarity(queryEmbedding, allDocs[i].embedding)]

\* the index in allDocs of scoredDocs[0] after the stable descending sort
TopIndex(scores) ==
    CHOOSE i \in 1..Len(scores) :
        /\ \A j \in 1..Len(scores) : ~Greater(scores[j], scores[i])
        /\ \A j \in 1..(i - 1) : Greater(scores[i], scores[j])

Answer_HighInclusive(bestText, score) ==
    IF score.num * 10 >= 7 * score.den
    THEN [answer |-> bestText, confidence |-> RoundPercent(score)]
    ELSE IF Above(score, 6, 10)
    THEN [answer |-> HedgePrefix \o bestText, confidence |-> RoundPercent(score)]
    ELSE [answer |-> RefusalAnswer, confidence |-> RoundPercent(Zero)]

\* the tier policy on topDocs[0] (lines 264-284)
Answer(bestText, score) ==
    IF Above(score, 7, 10)
    THEN [answer |-> bestText, confidence |-> RoundPercent(score)]
    ELSE IF Above(score, 6, 10)
    THEN [answer |-> HedgePrefix \o bestText, confidence |-> RoundPercent(score)]
    ELSE [answer |-> RefusalAnswer, confidence |-> RoundPercent(Zero)]

\* app.post('/query')
QueryHandler(st, m, q, fault) ==
    IF Falsy(q) THEN Response("query", 400, "validate")
    ELSE IF fault = "embed" THEN Response("query", 500, "embed")
    ELSE IF fault = "connect" THEN Response("query", 500, "connect")
    ELSE IF Len(st) = 0
         THEN [Response("query", 200, "empty") EXCEPT
                   !.question = q, !.answer = NoInfoAnswer]
    ELSE LET scores == Scores(st, getEmbeddings(m, <<q.str>>)[1])
             top == TopIndex(scores)
             a == Answer(st[top].text, scores[top])
         IN  [Response("query", 200, "ok") EXCEPT
                  !.question = q, !.answer = a.answer, !.confidence = a.confidence]

\* app.delete('/documents')
ClearHandler(st, storeOk) ==
    IF storeOk
    THEN [store |-> <<>>, resp |-> [Response("clear", 200, "ok") EXCEPT !.chunks = Len(st)]]
    ELSE [store |-> st, resp |-> Response("clear", 500, "connect")]

\* the loop of /load-my-data from document i on; failAt is the document whose
\* embedding or insert throws (0: none)
RECURSIVE LoadLoop(_, _, _, _, _)
LoadLoop(st, m, i, failAt, totalChunks) ==
    IF i > Len(myData)
    THEN [store |-> st,
          resp |-> [Response("load", 200, "ok") EXCEPT !.chunks = totalChunks]]
    ELSE LET doc == myData[i]
             chs == chunkText(JsStr(doc.text), DefaultChunkSize)
         IN  IF Len(chs) = 0 THEN LoadLoop(st, m, i + 1, failAt, totalChunks)
             ELSE IF i = failAt
                  THEN [store |-> st, resp |-> Response("load", 500, "embed")]
             ELSE LoadLoop(InsertMany(st, LoadDocuments(doc.docId, chs,
                                                        getEmbeddings(m, chs),
                                                        doc.metadata)),
                           m, i + 1, failAt, totalChunks + Len(chs))

\* app.post('/load-my-data')
LoadHandler(st, m, storeOk, failAt) ==
    IF ~storeOk THEN [store |-> st, resp |-> Response("load", 500, "connect")]
    ELSE LoadLoop(<<>>, m, 1, failAt, 0)

----------------------------------------------------------------------------
(* Values of the variables a specification does not use *)

IdleChunk ==
    /\ text = JsUndefined
    /\ chunkSize = 0
    /\ cleanText = <<>>
    /\ start = 0
    /\ chunks = <<>>
    /\ spans = <<>>
    /\ pc = "idle"

IdleSeq ==
    /\ lastOp = NoResponse
    /\ lastIngest = [d \in DocIds |-> NoIngest]

IdleConc ==
    /\ req = <<>>
    /\ store0 = <<>>
    /\ order = <<>>

----------------------------------------------------------------------------
(* The chunker on every bounded input *)

InitChunk ==
    /\ text \in ChunkInputs
    /\ chunkSize \in 1..MaxChunkSize
    /\ cleanText = <<>>
    /\ start = 0
    /\ chunks = <<>>
    /\ spans = <<>>
    /\ pc = "call"
    /\ store = <<>>
    /\ voyage = 0
    /\ IdleSeq
    /\ IdleConc

NextChunk ==
    \/ ChunkEnter /\ UNCHANGED <<seqVars, concVars>>
    \/ ChunkIterate /\ UNCHANGED <<seqVars, concVars>>
    \/ ChunkReturn /\ UNCHANGED <<seqVars, concVars>>

SpecChunk == InitChunk /\ [][NextChunk]_vars

----------------------------------------------------------------------------
(* Requests served one after the other *)

Ingest ==
    \E d \in DocIdInputs, t \in IngestTexts, metadata \in Metadatas, fault \in Faults :
        LET r == IngestHandler(store, voyage, d, t, metadata, fault)
        IN  /\ store' = r.store
            /\ lastOp' = r.resp
            /\ lastIngest' =
                   IF r.resp.status = 200
                   THEN [lastIngest EXCEPT ![d] = [valid |-> TRUE, text |-> t,
                                                   metadata |-> metadata,
                                                   count |-> r.resp.chunks]]
                   ELSE IF r.resp.stage = "insert"
                   THEN [lastIngest EXCEPT ![d] = NoIngest]
                   ELSE lastIngest
            /\ UNCHANGED voyage

Query ==
    \E q \in Questions, fault \in {"none", "embed", "connect"} :
        /\ lastOp' = QueryHandler(store, voyage, q, fault)
        /\ UNCHANGED <<store, voyage, lastIngest>>

ClearAll ==
    \E storeOk \in BOOLEAN :
        LET r == ClearHandler(store, storeOk)
        IN  /\ store' = r.store
            /\ lastOp' = r.resp
            /\ lastIngest' = IF storeOk THEN [d \in DocIds |-> NoIngest] ELSE lastIngest
            /\ UNCHANGED voyage

LoadMyData ==
    \E storeOk \in BOOLEAN, failAt \in LoadFailPoints :
        LET r == LoadHandler(store, voyage, storeOk, failAt)
        IN  /\ store' = r.store
            /\ lastOp' = r.resp
            /\ lastIngest' = IF storeOk THEN [d \in DocIds |-> NoIngest] ELSE lastIngest
            /\ UNCHANGED voyage

InitSeq ==
    /\ store = <<>>
    /\ voyage \in Providers
    /\ IdleSeq
    /\ IdleChunk
    /\ IdleConc

NextSeq ==
    \/ Ingest /\ UNCHANGED <<chunkVars, concVars>>
    \/ Query /\ UNCHANGED <<chunkVars, concVars>>
    \/ ClearAll /\ UNCHANGED <<chunkVars, concVars>>
    \/ LoadMyData /\ UNCHANGED <<chunkVars, concVars>>

SpecSeq == InitSeq /\ [][NextSeq]_vars

----------------------------------------------------------------------------
(* Overlapping /ingest requests: a handler runs to its next await, and the  *)
(* store executes one call at a time                                        *)

Reqs == {1, 2}

ConcInputs ==
    {[docId |-> d, text |-> JsStr(SkyText)] : d \in DocIdInputs}
        \cup {[docId |-> d, text |-> JsStr(LongText)] : d \in DocIds}

ConcMetadata == [title |-> "", category |-> "academic"]

NewReq(in) ==
    [docId |-> in.docId, text |-> in.text, pc |-> "recv", chunks |-> <<>>,
     embeddings |-> <<>>]

\* a store two earlier ingests have filled
SeededStore(m) ==
    IngestHandler(IngestHandler(<<>>, m, "d1", JsStr(LongText), ConcMetadata, "none").store,
                  m, "general-1", JsStr(SkyText), ConcMetadata, "none").store

\* lines 150-171: validation and chunking, up to the call of getEmbeddings
Receive(r) ==
    /\ req[r].pc = "recv"
    /\ LET chs == ChunksOf(req[r].text)
       IN  req' = [req EXCEPT ![r] =
                      IF req[r].docId = "" \/ Falsy(req[r].text) \/ Len(chs) = 0
                      THEN [@ EXCEPT !.pc = "rejected"]
                      ELSE [@ EXCEPT !.pc = "embed", !.chunks = chs]]
    /\ UNCHANGED <<store, voyage, store0, order>>

\* line 171: the provider answers or the request throws
EmbedReturn(r) ==
    /\ req[r].pc = "embed"
    /\ \E ok \in BOOLEAN :
        req' = [req EXCEPT ![r] =
                   IF ok
                   THEN [@ EXCEPT !.pc = "connect",
                                  !.embeddings = getEmbeddings(voyage, req[r].chunks)]
                   ELSE [@ EXCEPT !.pc = "failed"]]
    /\ UNCHANGED <<store, voyage, store0, order>>

\* line 174: connectToMongo
Connect(r) ==
    /\ req[r].pc = "connect"
    /\ \E ok \in BOOLEAN :
        req' = [req EXCEPT ![r].pc = IF ok THEN "delete" ELSE "failed"]
    /\ UNCHANGED <<store, voyage, store0, order>>

\* line 179: deleteMany({ docId })
Delete(r) ==
    /\ req[r].pc = "delete"
    /\ \E ok \in BOOLEAN :
        IF ok
        THEN /\ store' = DeleteMany(store, req[r].docId)
             /\ order' = Append(order, <<r, "deleteMany">>)
             /\ req' = [req EXCEPT ![r].pc = "insert"]
        ELSE /\ req' = [req EXCEPT ![r].pc = "failed"]
             /\ UNCHANGED <<store, order>>
    /\ UNCHANGED <<voyage, store0>>

\* lines 182-203: insertMany(documents) and the response
Insert(r) ==
    /\ req[r].pc = "insert"
    /\ \E ok \in BOOLEAN :
        IF ok
        THEN /\ store' = InsertMany(store,
                                    IngestDocuments(req[r].docId, req[r].chunks,
                                                    req[r].embeddings, ConcMetadata))
             /\ order' = Append(order, <<r, "insertMany">>)
             /\ req' = [req EXCEPT ![r].pc = "done"]
        ELSE /\ req' = [req EXCEPT ![r].pc = "failed"]
             /\ UNCHANGED <<store, order>>
    /\ UNCHANGED <<voyage, store0>>

InitConc ==
    /\ voyage \in Providers
    /\ store \in {<<>>, SeededStore(voyage)}
    /\ store0 = store
    /\ req \in [Reqs -> {NewReq(in) : in \in ConcInputs}]
    /\ order = <<>>
    /\ IdleSeq
    /\ IdleChunk

NextConc ==
    \E r \in Reqs :
        \/ Receive(r) /\ UNCHANGED <<chunkVars, lastOp, lastIngest>>
        \/ EmbedReturn(r) /\ UNCHANGED <<chunkVars, lastOp, lastIngest>>
        \/ Connect(r) /\ UNCHANGED <<chunkVars, lastOp, lastIngest>>
        \/ Delete(r) /\ UNCHANGED <<chunkVars, lastOp, lastIngest>>
        \/ Insert(r) /\ UNCHANGED <<chunkVars, lastOp, lastIngest>>

SpecConc == InitConc /\ [][NextConc]_vars

----------------------------------------------------------------------------
(* Properties of the chunker, under SpecChunk *)

\* the loop of chunkText has been entered
LoopRan == pc \in {"loop", "done"} /\ text.type = "string" /\ Len(cleanText) > chunkSize

\* the nearest period at or before index b of s, or -1
NearestPeriod(s, b) ==
    IF \E p \in 0..Min(b, Len(s) - 1) : s[p + 1] = "."
    THEN CHOOSE p \in 0..Min(b, Len(s) - 1) :
             s[p + 1] = "." /\ \A k \in (p + 1)..Min(b, Len(s) - 1) : s[k + 1] # "."
    ELSE -1

RECURSIVE ConcatSpans(_)
ConcatSpans(n) ==
    IF n = 0 THEN <<>>
    ELSE ConcatSpans(n - 1) \o Slice(cleanText, spans[n].start, spans[n].end)

\* C4: every chunk the chunker has produced is at most chunkSize characters long.
C4_ChunkWithinMaxLength == \A i \in 1..Len(chunks) : Len(chunks[i]) <= chunkSize

\* C5: the chunker returns the empty sequence for an input that is not a string,
\* is empty or normalizes to the empty string, and never returns an empty chunk.
C5_BlankInputYieldsNoChunks ==
    pc = "done" =>
        /\ (text.type # "string" \/ CleanText(text.str) = <<>>) => chunks = <<>>
        /\ \A i \in 1..Len(chunks) : chunks[i] # <<>>

\* C6: once the loop runs, the spans cut so far are non-empty and contiguous from
\* index 0 up to the scan position, their concatenation is the normalized text up
\* to that position, and at the return the scan position has reached the text end,
\* so that the spans concatenate to the whole normalized text.
C6_SpansCoverText ==
    LoopRan =>
        /\ \A i \in 1..Len(spans) :
               /\ spans[i].start = (IF i = 1 THEN 0 ELSE spans[i - 1].end)
               /\ spans[i].start < spans[i].end
        /\ start = (IF spans = <<>> THEN 0 ELSE spans[Len(spans)].end)
        /\ ConcatSpans(Len(spans)) = SubSeq(cleanText, 1, Min(start, Len(cleanText)))
        /\ pc = "done" =>
               /\ spans # <<>>
               /\ spans[Len(spans)].end >= Len(cleanText)
               /\ start >= Len(cleanText)
               /\ ConcatSpans(Len(spans)) = cleanText

\* a finished run of several spans, one cut after a period and one trimmed
C6_Witness ==
    /\ LoopRan
    /\ pc = "done"
    /\ Len(spans) >= 2
    /\ \E i \in 1..Len(spans) : spans[i].end # spans[i].start + chunkSize
    /\ \E i \in 1..Len(spans) : Len(spans[i].chunk) < spans[i].end - spans[i].start

\* C9 as stated: in a span whose proposed boundary lies before the text end, the
\* nearest period at or before the boundary is the cut point iff its offset from
\* the chunk start is at least 0.6 * chunkSize; otherwise the cut is the boundary.
C9_PeriodUsedAtSixTenths ==
    \A i \in 1..Len(spans) :
        LET b == spans[i].start + chunkSize
            p == NearestPeriod(cleanText, b)
        IN  b < Len(cleanText) =>
                spans[i].end =
                    IF p >= 0 /\ RatioDen * (p - spans[i].start) >= RatioNum * chunkSize
                    THEN p + 1
                    ELSE b

\* C9 amended: the nearest period at or before the boundary is the cut point iff
\* its offset from the chunk start is greater than 0.6 * chunkSize; otherwise the
\* cut is the boundary.
C9_PeriodUsedAboveSixTenths ==
    \A i \in 1..Len(spans) :
        LET b == spans[i].start + chunkSize
            p == NearestPeriod(cleanText, b)
        IN  b < Len(cleanText) =>
                spans[i].end =
                    IF p >= 0 /\ RatioDen * (p - spans[i].start) > RatioNum * chunkSize
                    THEN p + 1
                    ELSE b

\* a span whose nearest period sits at exactly 0.6 * chunkSize, cut at the boundary
C9_Witness ==
    \E i \in 1..Len(spans) :
        LET b == spans[i].start + chunkSize
            p == NearestPeriod(cleanText, b)
        IN  /\ b < Len(cleanText)
            /\ p >= 0
            /\ RatioDen * (p - spans[i].start) = RatioNum * chunkSize
            /\ spans[i].end = b

----------------------------------------------------------------------------
(* Properties of the store under requests served one after the other (SpecSeq) *)

DocIdsIn(st) == {st[i].docId : i \in 1..Len(st)}

\* C1: for each id whose last store change was a successful ingest, the store
\* holds for that id exactly the documents of that ingest's text, in order, and
\* as many as the ingest reported.
C1_ReingestReplaces ==
    \A d \in DocIds :
        lastIngest[d].valid =>
            LET chs == ChunksOf(lastIngest[d].text)
                mine == ChunksFor(store, d)
            IN  /\ Len(mine) = Len(chs)
                /\ Len(mine) = lastIngest[d].count
                /\ \A i \in 1..Len(mine) :
                       /\ mine[i].text = chs[i]
                       /\ mine[i].chunkIndex = i - 1
                       /\ mine[i].embedding = EmbeddingOf(voyage, chs[i])

\* an ingest that has just replaced an earlier version of another number of
\* chunks, while the store holds another document too
C1_Witness ==
    /\ lastOp.op = "ingest"
    /\ lastOp.status = 200
    /\ lastOp.deleted > 0
    /\ lastOp.deleted # lastOp.chunks
    /\ lastIngest[lastOp.docId].valid
    /\ DocIdsIn(store) # {lastOp.docId}

\* C2: for each id in the store, every chunk records totalChunks, the same for
\* all of them, and the chunkIndex values are 0 .. totalChunks-1, none repeated.
C2_ChunkIndexRange ==
    \A d \in DocIdsIn(store) :
        LET mine == ChunksFor(store, d)
        IN  /\ \A i \in 1..Len(mine) :
                   /\ "totalChunks" \in DOMAIN mine[i].metadata
                   /\ mine[i].metadata.totalChunks = Len(mine)
            /\ {mine[i].chunkIndex : i \in 1..Len(mine)} = 0..(Len(mine) - 1)

\* the scores of the corpus against the last question, computed from the vectors
QueryScores == Scores(store, EmbeddingOf(voyage, lastOp.question.str))

IsBest(i) == \A j \in 1..Len(store) : ~Greater(QueryScores[j], QueryScores[i])

\* round(100 * s): the integer k with k - 1/2 <= 100 * s < k + 1/2
Rounded(s) ==
    CHOOSE k \in -100..100 :
        (2 * k - 1) * s.den <= 200 * s.num /\ 200 * s.num < (2 * k + 1) * s.den

\* C3: a query answered over a non-empty corpus whose best score is s returns the
\* best chunk's text and round(100 s) if s > 0.70, the hedge prefix before that
\* text and round(100 s) if 0.60 < s <= 0.70, and the refusal and 0 if s <= 0.60.
C3_TierPolicy ==
    (lastOp.op = "query" /\ lastOp.stage = "ok") =>
        \E i \in 1..Len(store) :
            LET s == QueryScores[i]
            IN  /\ IsBest(i)
                /\ 10 * s.num > 7 * s.den =>
                       /\ lastOp.answer = store[i].text
                       /\ lastOp.confidence = Rounded(s)
                /\ (10 * s.num > 6 * s.den /\ 10 * s.num <= 7 * s.den) =>
                       /\ lastOp.answer = HedgePrefix \o store[i].text
                       /\ lastOp.confidence = Rounded(s)
                /\ 10 * s.num <= 6 * s.den =>
                       /\ lastOp.answer = RefusalAnswer
                       /\ lastOp.confidence = 0

\* a query whose best score is exactly 0.70, answered with the hedge prefix
C3_Witness ==
    /\ lastOp.op = "query"
    /\ lastOp.stage = "ok"
    /\ \E i \in 1..Len(store) :
           /\ IsBest(i)
           /\ 10 * QueryScores[i].num = 7 * QueryScores[i].den
           /\ lastOp.answer = HedgePrefix \o store[i].text
           /\ lastOp.confidence = 70

\* C10: an ingest that ends in validation, in chunking or in the embedding request
\* has issued no store call and leaves the store as it was.
C10_FailedIngestKeepsStore ==
    [][(lastOp'.op = "ingest" /\ lastOp'.stage \in {"validate", "chunk", "embed"})
           => (store' = store /\ lastOp'.calls = <<>>)]_vars

\* an ingest aborted by the embedding provider while the store holds chunks of
\* every id a client sends, that ingest's id among them
C10_Witness ==
    /\ lastOp.op = "ingest"
    /\ lastOp.stage = "embed"
    /\ \A d \in DocIds : ChunksFor(store, d) # <<>>

----------------------------------------------------------------------------
(* Properties of overlapping ingests (SpecConc) *)

AllDone == \A r \in Reqs : req[r].pc = "done"

\* the requests in the order of their insertMany calls
InsertOrder == SelectSeq(order, LAMBDA c : c[2] = "insertMany")

\* the documents request r inserts
DocumentsOf(r) ==
    IngestDocuments(req[r].docId, ChunksOf(req[r].text),
                    getEmbeddings(voyage, ChunksOf(req[r].text)), ConcMetadata)

\* the store after the first n requests of InsertOrder have run one after the
\* other, each from its request to its response, on the initial store
RECURSIVE OneAfterTheOther(_)
OneAfterTheOther(n) ==
    IF n = 0 THEN store0
    ELSE LET r == InsertOrder[n][1]
         IN  IngestHandler(OneAfterTheOther(n - 1), voyage, req[r].docId, req[r].text,
                           ConcMetadata, "none").store

DistinctIds == \A r, q \in Reqs : r # q => req[r].docId # req[q].docId

\* C7: when ingests of distinct ids have all completed, whatever the interleaving
\* of their store calls, the store is the one left by running them one after the
\* other, and each id holds exactly the documents of its own ingest.
C7_DistinctIdsDoNotConflict ==
    (AllDone /\ DistinctIds) =>
        /\ store = OneAfterTheOther(Len(InsertOrder))
        /\ \A r \in Reqs : ChunksFor(store, req[r].docId) = DocumentsOf(r)

\* two completed ingests of distinct ids whose store calls interleaved, on a
\* store that held an earlier version of each
C7_Witness ==
    /\ AllDone
    /\ DistinctIds
    /\ store0 # <<>>
    /\ Len(order) = 4
    /\ order[1][1] # order[2][1]
    /\ order[2][2] = "deleteMany"

\* C8: when two ingests of one id have completed with both deleteMany calls before
\* both insertMany calls, the store holds for that id the documents of both, in
\* the order of the inserts: chunkIndex 0 twice, and the result of neither alone.
C8_SameIdRace ==
    \A r, q \in Reqs :
        (/\ r # q
         /\ AllDone
         /\ req[r].docId = req[q].docId
         /\ order = <<order[1], order[2], <<r, "insertMany">>, <<q, "insertMany">>>>
         /\ order[1][2] = "deleteMany"
         /\ order[2][2] = "deleteMany")
        => LET mine == ChunksFor(store, req[r].docId)
           IN  /\ mine = DocumentsOf(r) \o DocumentsOf(q)
               /\ Cardinality({i \in 1..Len(mine) : mine[i].chunkIndex = 0}) = 2
               /\ mine # DocumentsOf(r)
               /\ mine # DocumentsOf(q)

\* two completed ingests of one id with different texts, both deletes first
C8_Witness ==
    /\ AllDone
    /\ ~DistinctIds
    /\ \E r, q \in Reqs : r # q /\ req[r].text # req[q].text
    /\ Len(order) = 4
    /\ order[1][2] = "deleteMany"
    /\ order[2][2] = "deleteMany"
    /\ store # OneAfterTheOther(Len(InsertOrder))

====
